---- MODULE Spec2Model ----
(***************************************************************************)
(* The live-session client of the AI appointment page                      *)
(* (desktop/app/ai-appointment/page.tsx): the session phase, the refs the  *)
(* callbacks share, the browser objects they point at, and one action per  *)
(* user gesture or browser callback.  Callbacks run to completion on one   *)
(* thread, so each action is one whole callback; an async function is cut  *)
(* at the awaits that really suspend it.                                   *)
(***************************************************************************)
EXTENDS Integers, Sequences, FiniteSets, TLC

\* ------------------------------------------------------------- bounds
MaxSessions == 2      \* startLiveSession calls explored
MaxRestarts == 3      \* startLiveSession calls explored by SpecLeftover
MaxChunks == 1        \* inbound audio messages explored by Spec
MaxBurst == 3         \* inbound audio messages explored by SpecPlayback
MaxTaps == 1          \* script-processor taps explored per capture context
MaxVideoTimers == 1   \* video intervals explored per session
Unit == 100           \* a sample k stands for the amplitude k / Unit
MaxWindow == 2        \* samples per capture window explored by SpecEncoder
MaxConnected == 2     \* status:connected messages acted on per session explored by SpecTaps
MaxDevices == 2       \* devices per enumerateDevices result explored by SpecRouting

Sessions == 1..MaxRestarts

SessionStatus ==
    {"idle", "connecting", "connected", "speaking", "listening", "ended", "error"}

\* ------------------------------------------------------------- state
VARIABLES
    \* React state of the page
    sessionStatus,        \* useState<SessionStatus>("idle")
    error,                \* useState<string | null>(null): "null" or the cause
    enableVideo,          \* useState(false)
    showConsentModal,     \* useState(false)
    sessionSummary,       \* useState<any>(null): "null" or "received"
    \* the summary-fallback effect
    pollInterval,         \* its setInterval(fetchSummary, 3000) is set and not cleared
    fetching,             \* a fetchSummary call is awaiting its response
    \* refs shared by the callbacks (0 stands for null)
    wsRef,                \* session whose WebSocket the ref holds
    audioContextRef,      \* session whose capture AudioContext the ref holds
    mediaStreamRef,       \* session whose MediaStream the ref holds
    activeAudioContextRef, \* index in playback of the playback AudioContext
    activeSourceNodeRef,  \* index in units of the AudioBufferSourceNode
    audioQueueRef2,       \* queued inbound chunks, in arrival order
    isPlayingAudioRef,
    isSessionActiveRef,
    \* browser objects, one set per startLiveSession call
    nSessions,            \* startLiveSession calls made so far
    call,                 \* where each startLiveSession call stands
    closure,              \* the render values each call closed over
    stream,               \* MediaStream of each call: none / live / stopped
    capture,              \* capture AudioContext: none / running / closed
    socket,               \* WebSocket readyState, "NONE" before construction
    taps,                 \* onaudioprocess taps installed on each capture context
    videoTimers,          \* setInterval(captureFrame) timers made by each session's handler
    \* inbound playback
    playback,             \* state of every playback AudioContext made so far
    units,                \* every source node made so far: its chunks, context, state
    pending,              \* processAudioQueue calls suspended at an await
    threw,                \* processAudioQueue has caught an exception ("Error playing audio")
    debounceTimers,       \* setTimeout(processAudioQueue, 150) timers not yet fired
    nChunks,              \* inbound audio messages received so far
    byteLength,           \* the byteLength of each chunk received, by arrival number
    \* what the last callback did (observations, never read by the program)
    phaseWrites,          \* the setSessionStatus calls it made, in order
    sends,                \* the messages it sent: <<channel, type, origin>>
    cleanupCalls,         \* how many times it invoked cleanup
    cancelled,            \* endSession or an error transition since the last start
    lookups,              \* the fetchSummary calls it (and the effect after it) made
    inputData,            \* the sample window it read, <<>> if none
    pcmData,              \* the Int16 frame it put in its audio message, <<>> if none
    received,             \* the inbound message or lookup response it was handed, else "none"
    enumerated,           \* what enumerateDevices gave it, NotEnumerated if it did not route
    sinkId,               \* the sink its playback context was left with, "none" if it did not route
    \* what each channel has carried so far (observation)
    outbox                \* per socket: its first message, its config messages

reactVars == <<sessionStatus, error, enableVideo, showConsentModal, sessionSummary>>
effectVars == <<pollInterval, fetching>>
refVars == <<wsRef, audioContextRef, mediaStreamRef, activeAudioContextRef,
             activeSourceNodeRef, audioQueueRef2, isPlayingAudioRef, isSessionActiveRef>>
objVars == <<stream, capture, socket, playback, units, pending, threw>>
callVars == <<nSessions, call, closure>>
tapVars == <<taps, videoTimers>>
inVars == <<debounceTimers, nChunks, byteLength>>
obsVars == <<phaseWrites, sends, cleanupCalls, cancelled, lookups, inputData, pcmData,
             received, enumerated, sinkId, outbox>>
vars == <<reactVars, effectVars, refVars, objVars, callVars, tapVars, inVars, obsVars>>

\* The refs and the objects they point at, as one value: what cleanup and
\* processAudioQueue read and write.
Heap ==
    [wsRef |-> wsRef, audioContextRef |-> audioContextRef,
     mediaStreamRef |-> mediaStreamRef,
     activeAudioContextRef |-> activeAudioContextRef,
     activeSourceNodeRef |-> activeSourceNodeRef,
     audioQueueRef2 |-> audioQueueRef2,
     isPlayingAudioRef |-> isPlayingAudioRef,
     isSessionActiveRef |-> isSessionActiveRef,
     stream |-> stream, capture |-> capture, socket |-> socket,
     playback |-> playback, units |-> units, pending |-> pending,
     threw |-> threw]

Install(h) ==
    /\ wsRef' = h.wsRef
    /\ audioContextRef' = h.audioContextRef
    /\ mediaStreamRef' = h.mediaStreamRef
    /\ activeAudioContextRef' = h.activeAudioContextRef
    /\ activeSourceNodeRef' = h.activeSourceNodeRef
    /\ audioQueueRef2' = h.audioQueueRef2
    /\ isPlayingAudioRef' = h.isPlayingAudioRef
    /\ isSessionActiveRef' = h.isSessionActiveRef
    /\ stream' = h.stream
    /\ capture' = h.capture
    /\ socket' = h.socket
    /\ playback' = h.playback
    /\ units' = h.units
    /\ pending' = h.pending
    /\ threw' = h.threw

\* ------------------------------------------------------------- browser objects

\* AudioBufferSourceNode.stop(): a playing node stops; its ended event is
\* still to be delivered.  On a node that is not playing it throws, which
\* cleanup ignores.
StopNode(us, n) ==
    IF us[n].state = "playing" THEN [us EXCEPT ![n].state = "stopped"] ELSE us

\* AudioContext.close(): closing a closed context rejects, which cleanup logs.
CloseContext(st) == IF st = "running" THEN "closed" ELSE st

\* MediaStreamTrack.stop() on every track.
StopTracks(st) == IF st = "live" THEN "stopped" ELSE st

\* A close() that only acts on an open socket.
CloseSocketIfOpen(st) == IF st = "OPEN" THEN "CLOSING" ELSE st

\* WebSocket.close(): an open socket starts the closing handshake; one still
\* connecting is failed (its error and close events follow); otherwise nothing.
CloseSocket(st) ==
    CASE st = "OPEN" -> "CLOSING"
      [] st = "CONNECTING" -> "ABORTING"
      [] OTHER -> st

\* ------------------------------------------------------------- cleanup

\* cleanup, first part: the liveness flag is dropped, the in-flight source
\* node is stopped and the playback context closed.
stopPlayback(h) ==
    LET h1 == [h EXCEPT !.isSessionActiveRef = FALSE]
        h2 == IF h1.activeSourceNodeRef # 0
              THEN [h1 EXCEPT !.units = StopNode(@, h1.activeSourceNodeRef),
                              !.activeSourceNodeRef = 0]
              ELSE h1
    IN  IF h2.activeAudioContextRef # 0
        THEN [h2 EXCEPT !.playback[h2.activeAudioContextRef] = CloseContext(@),
                        !.activeAudioContextRef = 0]
        ELSE h2

\* cleanup, second part: the inbound queue and the in-flight flag.
clearQueue(h) == [h EXCEPT !.audioQueueRef2 = <<>>, !.isPlayingAudioRef = FALSE]

\* cleanup, third part: the capture context and the media stream.
releaseCapture(h) ==
    LET h1 == IF h.audioContextRef # 0
              THEN [h EXCEPT !.capture[h.audioContextRef] = CloseContext(@),
                             !.audioContextRef = 0]
              ELSE h
    IN  IF h1.mediaStreamRef # 0
        THEN [h1 EXCEPT !.stream[h1.mediaStreamRef] = StopTracks(@),
                        !.mediaStreamRef = 0]
        ELSE h1

\* A release that forgets the WebSocket without closing it.
dropChannel(h) == [h EXCEPT !.wsRef = 0]

\* cleanup, last part: the WebSocket.
closeChannel(h) ==
    IF h.wsRef # 0
    THEN [h EXCEPT !.socket[h.wsRef] = CloseSocket(@), !.wsRef = 0]
    ELSE h

\* A cleanup that forgets the queue and the in-flight flag.
cleanupKeepingQueue(h) == closeChannel(releaseCapture(stopPlayback(h)))

cleanup(h) == closeChannel(releaseCapture(clearQueue(stopPlayback(h))))

\* ------------------------------------------------------------- playback

\* processAudioQueue from the point where it holds its playback context and
\* no await is left: the liveness re-check, then the source node is built and
\* started; anything thrown on the way is caught and resets the in-flight flag.
\* A node started on a context that was closed meanwhile renders nothing and
\* never ends.
playUnit(h, chunks, ctx) ==
    IF ~h.isSessionActiveRef
    THEN {[h EXCEPT !.isPlayingAudioRef = FALSE]}
    ELSE {[h EXCEPT !.units = Append(@, [chunks |-> chunks, ctx |-> ctx,
                                         state |-> IF h.playback[ctx] = "running"
                                                   THEN "playing" ELSE "mute"]),
                    !.activeSourceNodeRef = Len(h.units) + 1],
          [h EXCEPT !.isPlayingAudioRef = FALSE, !.threw = TRUE]}

\* A splice that takes the first chunk only.
spliceHead(q) == [removed |-> <<Head(q)>>, left |-> Tail(q)]

\* audioQueueRef2.current.splice(0, length): every queued chunk is removed, in
\* order, and the queue is left empty.
splice(q) == [removed |-> SubSeq(q, 1, Len(q)), left |-> SubSeq(q, Len(q) + 1, Len(q))]

\* A test that asks for a new context every time.
alwaysNewContext(h) == TRUE

\* !playbackContext || playbackContext.state === 'closed'
needsContext(h) ==
    h.activeAudioContextRef = 0 \/ h.playback[h.activeAudioContextRef] = "closed"

\* allChunks.reduce((sum, chunk) => sum + chunk.byteLength, 0)
RECURSIVE totalLength(_)
totalLength(chunks) ==
    IF chunks = <<>> THEN 0 ELSE byteLength[Head(chunks)] + totalLength(Tail(chunks))

\* new Int16Array(combined.buffer) takes a buffer whose byte length is a
\* multiple of 2 and throws a RangeError on any other.
fitsInt16Array(chunks) == totalLength(chunks) % 2 = 0

\* processAudioQueue up to its first suspension: every heap it can leave.
\* The Int16Array is built before the try block: when it throws, the call
\* ends there, the chunks taken and the in-flight flag still set.
\* A fresh context is followed by the enumerateDevices await; an existing one
\* is awaited only when it has to be resumed.
processAudioQueue(h) ==
    IF ~h.isSessionActiveRef \/ h.isPlayingAudioRef \/ h.audioQueueRef2 = <<>>
    THEN {h}
    ELSE LET chunks == splice(h.audioQueueRef2).removed
             h1 == [h EXCEPT !.isPlayingAudioRef = TRUE,
                             !.audioQueueRef2 = splice(h.audioQueueRef2).left]
         IN  IF ~fitsInt16Array(chunks)
             THEN {h1}
             ELSE
             IF needsContext(h1)
             THEN LET n == Len(h1.playback) + 1
                  IN  {[h1 EXCEPT !.playback = Append(@, "running"),
                                  !.activeAudioContextRef = n,
                                  !.pending = @ \cup {[chunks |-> chunks, ctx |-> n,
                                                        fresh |-> TRUE]}],
                       [h1 EXCEPT !.isPlayingAudioRef = FALSE, !.threw = TRUE]}
             ELSE playUnit(h1, chunks, h1.activeAudioContextRef)
                  \cup {[h1 EXCEPT !.pending =
                            @ \cup {[chunks |-> chunks, ctx |-> h1.activeAudioContextRef,
                                     fresh |-> FALSE]}]}

\* ------------------------------------------------------------- observations

Last(s) == s[Len(s)]

\* ws.send(m) as the channel m.ws sees it: the type of its first message, how
\* many config messages it carried, the enable_video of the first of them.
Sent(o, m) ==
    [o EXCEPT ![m.ws] =
        [first |-> IF @.first = "none" THEN m.type ELSE @.first,
         configs |-> IF m.type = "config" THEN @.configs + 1 ELSE @.configs,
         enable_video |-> IF m.type = "config" /\ @.configs = 0
                          THEN m.enable_video ELSE @.enable_video]]

RECURSIVE SentAll(_, _)
SentAll(o, msgs) ==
    IF msgs = <<>> THEN o ELSE SentAll(Sent(o, Head(msgs)), Tail(msgs))

\* The callback made these setSessionStatus calls, sent these messages,
\* invoked cleanup k times, read the window in and encoded the frame out.
ObservedFrame(writes, msgs, k, in, out) ==
    /\ phaseWrites' = writes
    /\ sessionStatus' = IF writes = <<>> THEN sessionStatus ELSE Last(writes)
    /\ sends' = msgs
    /\ outbox' = SentAll(outbox, msgs)
    /\ cleanupCalls' = k
    /\ inputData' = in
    /\ pcmData' = out

\* The value of enumerated after a callback that routes no audio.
NotEnumerated == [ok |-> FALSE, devices |-> <<>>]

\* A callback that does not reach the audio routing of processAudioQueue.
Unrouted == enumerated' = NotEnumerated /\ sinkId' = "none"

\* A callback that is handed nothing by the network and encodes no frame.
Observed(writes, msgs, k) ==
    /\ ObservedFrame(writes, msgs, k, <<>>, <<>>)
    /\ received' = "none"
    /\ Unrouted

\* ws.onmessage, handed a message of this type, or the continuation of
\* fetchSummary, handed this response.
Heard(type, writes, msgs, k) ==
    /\ ObservedFrame(writes, msgs, k, <<>>, <<>>)
    /\ received' = type
    /\ Unrouted

\* The condition of the summary-fallback effect; the user is logged in.
fallbackWanted(st, sum) == st = "ended" /\ sum = "null"

\* An effect without a cleanup function: its interval is never cleared when a
\* dependency changes.
useEffectWithoutCleanup(st, sum, poll, fetch, n) ==
    /\ sessionSummary' = sum
    /\ IF st = sessionStatus /\ sum = sessionSummary
       THEN pollInterval' = poll /\ fetching' = fetch /\ lookups' = n
       ELSE /\ pollInterval' = (poll \/ fallbackWanted(st, sum))
            /\ fetching' = (fetch \/ fallbackWanted(st, sum))
            /\ lookups' = n + (IF fallbackWanted(st, sum) THEN 1 ELSE 0)

\* The summary-fallback effect, run after the render that follows a callback.
\* The callback left the phase st and the summary sum, the interval set or
\* not (poll), a lookup in flight or not (fetch), and made n lookups itself.
\* When a dependency changed, the effect's cleanup clears the interval and the
\* effect, if its condition holds, makes one lookup and sets a new interval.
useEffectSummary(st, sum, poll, fetch, n) ==
    /\ sessionSummary' = sum
    /\ IF st = sessionStatus /\ sum = sessionSummary
       THEN pollInterval' = poll /\ fetching' = fetch /\ lookups' = n
       ELSE /\ pollInterval' = fallbackWanted(st, sum)
            /\ fetching' = (fetch \/ fallbackWanted(st, sum))
            /\ lookups' = n + (IF fallbackWanted(st, sum) THEN 1 ELSE 0)

\* A callback that touches neither the summary nor the polling, and the
\* effect after it.
Did(writes, msgs, k) ==
    /\ Observed(writes, msgs, k)
    /\ useEffectSummary(IF writes = <<>> THEN sessionStatus ELSE Last(writes),
                        sessionSummary, pollInterval, fetching, 0)

Msg(ws, type, origin) == [ws |-> ws, type |-> type, origin |-> origin]

\* The config message ws.onopen of session s sends: enable_video is the
\* enableVideo its render closed over.
ConfigMsg(s) ==
    [ws |-> s, type |-> "config", origin |-> s, enable_video |-> closure[s].enableVideo]

\* A test of the ref alone, whatever the socket's readyState.
RefHeld == wsRef # 0

\* readyState === WebSocket.OPEN on the socket wsRef holds
RefOpen == wsRef # 0 /\ socket[wsRef] = "OPEN"

\* videoRef.current: the <video> element is rendered in the active-session view
\* when video is enabled
videoMounted == sessionStatus \notin {"idle", "ended"} /\ enableVideo

\* ws.onmessage handed a message of this type, when it touches neither the
\* summary nor the polling, and the effect after it.
DidOn(type, writes, msgs, k) ==
    /\ Heard(type, writes, msgs, k)
    /\ useEffectSummary(IF writes = <<>> THEN sessionStatus ELSE Last(writes),
                        sessionSummary, pollInterval, fetching, 0)

\* ------------------------------------------------------------- Init

Init ==
    /\ sessionStatus = "idle"
    /\ error = "null"
    /\ enableVideo = FALSE
    /\ showConsentModal = FALSE
    /\ sessionSummary = "null"
    /\ pollInterval = FALSE
    /\ fetching = FALSE
    /\ lookups = 0
    /\ inputData = <<>>
    /\ pcmData = <<>>
    /\ enumerated = NotEnumerated
    /\ sinkId = "none"
    /\ received = "none"
    /\ wsRef = 0
    /\ audioContextRef = 0
    /\ mediaStreamRef = 0
    /\ activeAudioContextRef = 0
    /\ activeSourceNodeRef = 0
    /\ audioQueueRef2 = <<>>
    /\ isPlayingAudioRef = FALSE
    /\ isSessionActiveRef = FALSE
    /\ nSessions = 0
    /\ call = [s \in Sessions |-> "none"]
    /\ closure = [s \in Sessions |-> [sessionStatus |-> "idle", enableVideo |-> FALSE]]
    /\ stream = [s \in Sessions |-> "none"]
    /\ capture = [s \in Sessions |-> "none"]
    /\ socket = [s \in Sessions |-> "NONE"]
    /\ taps = [s \in Sessions |-> 0]
    /\ videoTimers = [s \in Sessions |-> 0]
    /\ playback = <<>>
    /\ units = <<>>
    /\ pending = {}
    /\ threw = FALSE
    /\ debounceTimers = 0
    /\ nChunks = 0
    /\ byteLength = <<>>
    /\ phaseWrites = <<>>
    /\ sends = <<>>
    /\ cleanupCalls = 0
    /\ cancelled = FALSE
    /\ outbox = [s \in Sessions |->
                    [first |-> "none", configs |-> 0, enable_video |-> FALSE]]

\* ------------------------------------------------------------- user gestures

\* The two mode buttons of the pre-session view.
SetEnableVideo(b) ==
    /\ sessionStatus = "idle" /\ ~showConsentModal
    /\ enableVideo # b
    /\ enableVideo' = b
    /\ Did(<<>>, <<>>, 0)
    /\ UNCHANGED <<error, showConsentModal, refVars, objVars, callVars, tapVars,
                   inVars, cancelled>>

\* The "Start Live Session" button of the pre-session view.
requestPermissions ==
    /\ sessionStatus = "idle" /\ ~showConsentModal
    /\ showConsentModal' = TRUE
    /\ Did(<<>>, <<>>, 0)
    /\ UNCHANGED <<error, enableVideo, refVars, objVars, callVars, tapVars,
                   inVars, cancelled>>

handleConsentDecline ==
    /\ showConsentModal
    /\ showConsentModal' = FALSE
    /\ Did(<<>>, <<>>, 0)
    /\ UNCHANGED <<error, enableVideo, refVars, objVars, callVars, tapVars,
                   inVars, cancelled>>

\* handleConsentAccept, and startLiveSession up to its await of getUserMedia.
\* The user is logged in.
handleConsentAccept ==
    /\ showConsentModal
    /\ showConsentModal' = FALSE
    /\ error' = "null"
    /\ isSessionActiveRef' = TRUE
    /\ nSessions' = nSessions + 1
    /\ call' = [call EXCEPT ![nSessions + 1] = "getUserMedia"]
    /\ closure' = [closure EXCEPT ![nSessions + 1] =
                      [sessionStatus |-> sessionStatus, enableVideo |-> enableVideo]]
    /\ Did(<<"connecting", "connecting">>, <<>>, 0)
    /\ cancelled' = FALSE
    /\ UNCHANGED <<enableVideo, wsRef, audioContextRef, mediaStreamRef,
                   activeAudioContextRef, activeSourceNodeRef, audioQueueRef2,
                   isPlayingAudioRef, objVars, tapVars, inVars>>

\* The "End" button of the header, shown unless the phase is idle or ended.
endSession ==
    /\ sessionStatus \notin {"idle", "ended"} /\ ~showConsentModal
    /\ Install(cleanup(Heap))
    /\ Did(<<"ended">>,
           IF RefOpen THEN <<Msg(wsRef, "end", wsRef)>> ELSE <<>>, 1)
    /\ cancelled' = TRUE
    /\ UNCHANGED <<error, enableVideo, showConsentModal, callVars, tapVars, inVars>>

\* The "Start New Session" button of the ended view.
StartNewSession ==
    /\ sessionStatus = "ended" /\ ~showConsentModal
    /\ Observed(<<"idle">>, <<>>, 0)
    /\ useEffectSummary("idle", "null", pollInterval, fetching, 0)
    /\ UNCHANGED <<error, enableVideo, showConsentModal, refVars, objVars, callVars,
                   tapVars, inVars, cancelled>>

\* ------------------------------------------------------------- startLiveSession

\* What the code after the getUserMedia await can do: run through, or throw
\* at one of its two constructors.
Constructed == {"all", "AudioContext throws", "WebSocket throws"}

\* getUserMedia resolves and startLiveSession runs on to its end.  It checks
\* nothing about the session it belongs to.
getUserMediaResolved(s, how) ==
    /\ call[s] = "getUserMedia"
    /\ call' = [call EXCEPT ![s] = "done"]
    /\ stream' = [stream EXCEPT ![s] = "live"]
    /\ mediaStreamRef' = s
    /\ capture' = IF how = "AudioContext throws" THEN capture
                  ELSE [capture EXCEPT ![s] = "running"]
    /\ audioContextRef' = IF how = "AudioContext throws" THEN audioContextRef ELSE s
    /\ socket' = IF how = "all" THEN [socket EXCEPT ![s] = "CONNECTING"] ELSE socket
    /\ wsRef' = IF how = "all" THEN s ELSE wsRef
    /\ error' = IF how = "all" THEN error ELSE "Failed to start session"
    /\ Did(IF how = "all" THEN <<>> ELSE <<"error">>, <<>>, 0)
    /\ cancelled' = (cancelled \/ how # "all")
    /\ UNCHANGED <<enableVideo, showConsentModal, activeAudioContextRef,
                   activeSourceNodeRef, audioQueueRef2, isPlayingAudioRef,
                   isSessionActiveRef, playback, units, pending, threw, nSessions,
                   closure,
                   tapVars, inVars>>

\* getUserMedia rejects (permission denied, no device): the catch block.
getUserMediaRejected(s) ==
    /\ call[s] = "getUserMedia"
    /\ call' = [call EXCEPT ![s] = "done"]
    /\ error' = "Failed to access microphone"
    /\ Did(<<"error">>, <<>>, 0)
    /\ cancelled' = TRUE
    /\ UNCHANGED <<enableVideo, showConsentModal, refVars, objVars, nSessions,
                   closure, tapVars, inVars>>

\* ------------------------------------------------------------- WebSocket events

\* ws.onclose of the socket session s made: it compares the sessionStatus its
\* render closed over, not the current one.
onclose(s) == IF closure[s].sessionStatus # "ended" THEN <<"ended">> ELSE <<>>

wsOnOpen(s) ==
    /\ socket[s] = "CONNECTING"
    /\ socket' = [socket EXCEPT ![s] = "OPEN"]
    /\ Did(<<>>, <<ConfigMsg(s)>>, 0)
    /\ UNCHANGED <<error, enableVideo, showConsentModal, refVars, stream, capture,
                   playback, units, pending, threw, callVars, tapVars, inVars,
                   cancelled>>

\* A failure handler that opens the connection again.
wsOnErrorThenReconnect(s) ==
    /\ socket[s] \in {"CONNECTING", "OPEN", "ABORTING"}
    /\ socket' = [socket EXCEPT ![s] = IF @ = "OPEN" THEN "CONNECTING" ELSE "CLOSED"]
    /\ error' = "Connection error"
    /\ Did(<<"error">> \o onclose(s), <<>>, 0)
    /\ cancelled' = TRUE
    /\ UNCHANGED <<enableVideo, showConsentModal, refVars, stream, capture,
                   playback, units, pending, threw, callVars, tapVars, inVars>>

\* The connection fails (or was closed before it was established): the browser
\* fires error and then close in one task.
wsOnErrorThenClose(s) ==
    /\ socket[s] \in {"CONNECTING", "OPEN", "ABORTING"}
    /\ socket' = [socket EXCEPT ![s] = "CLOSED"]
    /\ error' = "Connection error"
    /\ Did(<<"error">> \o onclose(s), <<>>, 0)
    /\ cancelled' = TRUE
    /\ UNCHANGED <<enableVideo, showConsentModal, refVars, stream, capture,
                   playback, units, pending, threw, callVars, tapVars, inVars>>

\* The connection closes cleanly: the peer closed it, or the handshake that
\* ws.close() started completes.
wsOnClose(s) ==
    /\ socket[s] \in {"OPEN", "CLOSING"}
    /\ socket' = [socket EXCEPT ![s] = "CLOSED"]
    /\ Did(onclose(s), <<>>, 0)
    /\ UNCHANGED <<error, enableVideo, showConsentModal, refVars, stream, capture,
                   playback, units, pending, threw, callVars, tapVars, inVars,
                   cancelled>>

\* ------------------------------------------------------------- handleServerMessage
\* A message event is delivered only while the socket's readyState is OPEN.

\* startAudioCapture installs a tap on the context audioContextRef holds
canCapture == audioContextRef # 0 /\ mediaStreamRef # 0 /\ wsRef # 0

\* startVideoCapture, called when the handler's render had video enabled,
\* makes an interval when the canvas, the <video> element and wsRef are there
canVideo(s) == closure[s].enableVideo /\ videoMounted /\ wsRef # 0

statusConnected(s) ==
    /\ socket[s] = "OPEN"
    /\ taps' = IF canCapture THEN [taps EXCEPT ![audioContextRef] = @ + 1] ELSE taps
    /\ videoTimers' = IF canVideo(s) THEN [videoTimers EXCEPT ![s] = @ + 1]
                      ELSE videoTimers
    /\ DidOn("status", IF canCapture THEN <<"connected", "listening">>
                        ELSE <<"connected">>, <<>>, 0)
    /\ UNCHANGED <<error, enableVideo, showConsentModal, refVars, objVars, callVars,
                   inVars, cancelled>>

statusEnded(s) ==
    /\ socket[s] = "OPEN"
    /\ Install(cleanup(Heap))
    /\ DidOn("status", <<"ended">>, <<>>, 1)
    /\ UNCHANGED <<error, enableVideo, showConsentModal, callVars, tapVars, inVars,
                   cancelled>>

\* case "audio": playAudio decodes the chunk, len bytes of it, queues it and,
\* when nothing is in flight, sets a debounce timer.
audioMessage(s, len) ==
    /\ socket[s] = "OPEN"
    /\ nChunks' = nChunks + 1
    /\ byteLength' = Append(byteLength, len)
    /\ audioQueueRef2' = Append(audioQueueRef2, nChunks + 1)
    /\ debounceTimers' = IF isPlayingAudioRef THEN debounceTimers
                         ELSE debounceTimers + 1
    /\ DidOn("audio", <<"speaking">>, <<>>, 0)
    /\ UNCHANGED <<error, enableVideo, showConsentModal, wsRef, audioContextRef,
                   mediaStreamRef, activeAudioContextRef, activeSourceNodeRef,
                   isPlayingAudioRef, isSessionActiveRef, objVars, callVars, tapVars,
                   cancelled>>

\* case "text": logged only.
textMessage(s) ==
    /\ socket[s] = "OPEN"
    /\ DidOn("text", <<>>, <<>>, 0)
    /\ UNCHANGED <<error, enableVideo, showConsentModal, refVars, objVars, callVars,
                   tapVars, inVars, cancelled>>

\* What ws.onmessage drops: data JSON.parse throws on, a type the switch has
\* no case for, a status that is neither connected nor ended.
Dropped == {"unparseable", "unknown type", "unknown status"}

\* A handler that gives up the session on a message it cannot read.
ignoredMessageFatal(s, what) ==
    /\ socket[s] = "OPEN"
    /\ what \in Dropped
    /\ Install(cleanup(Heap))
    /\ DidOn(what, <<"error">>, <<>>, 1)
    /\ UNCHANGED <<error, enableVideo, showConsentModal, callVars, tapVars, inVars,
                   cancelled>>

\* ws.onmessage on a message it drops: JSON.parse throws out of the handler,
\* or handleServerMessage leaves its switch without a matching branch.
ignoredMessage(s, what) ==
    /\ socket[s] = "OPEN"
    /\ what \in Dropped
    /\ DidOn(what, <<>>, <<>>, 0)
    /\ UNCHANGED <<error, enableVideo, showConsentModal, refVars, objVars, callVars,
                   tapVars, inVars, cancelled>>

\* case "summary"
summaryMessage(s) ==
    /\ socket[s] = "OPEN"
    /\ Heard("summary", <<>>, <<>>, 0)
    /\ useEffectSummary(sessionStatus, "received", pollInterval, fetching, 0)
    /\ UNCHANGED <<error, enableVideo, showConsentModal, refVars, objVars, callVars,
                   tapVars, inVars, cancelled>>

\* What message.message of an error message evaluates to: the string the
\* peer put there, or undefined when the message has no such field.
ErrorTexts == {"peer error", "undefined"}

\* case "error": setError(message.message), then the phase
errorMessage(s, text) ==
    /\ socket[s] = "OPEN"
    /\ error' = text
    /\ DidOn("error", <<"error">>, <<>>, 0)
    /\ cancelled' = TRUE
    /\ UNCHANGED <<enableVideo, showConsentModal, refVars, objVars, callVars,
                   tapVars, inVars>>

\* ------------------------------------------------------------- capture callbacks

\* Amplitudes are the rationals k / Unit; a window is a sequence of them.
\* NOISE_THRESHOLD = 0.02
NOISE_THRESHOLD == [num |-> 2, den |-> 100]

\* 0x8000 and 0x7FFF, the factors of the Float32 to Int16 conversion
NegativeScale == 32768
PositiveScale == 32767

\* rms < NOISE_THRESHOLD, with rms = sqrt(sumSquares / length): both sides
\* squared and the denominators multiplied out.
SumSquares(w) ==
    LET RECURSIVE Sum(_)
        Sum(i) == IF i = 0 THEN 0 ELSE w[i] * w[i] + Sum(i - 1)
    IN  Sum(Len(w))

belowThreshold(w) ==
    SumSquares(w) * NOISE_THRESHOLD.den * NOISE_THRESHOLD.den
        < NOISE_THRESHOLD.num * NOISE_THRESHOLD.num * Len(w) * Unit * Unit

\* A conversion that leaves the sample as it is.
unclamped(k) == k

\* Math.max(-1, Math.min(1, x))
clamp(k) == IF k < -Unit THEN -Unit ELSE IF k > Unit THEN Unit ELSE k

\* Storing the number p / q in an Int16Array: truncated towards zero, then
\* wrapped to 16 bits.
ToInt16(p, q) ==
    LET t == IF p >= 0 THEN p \div q ELSE -((-p) \div q)
    IN  ((t + 2^15) % 2^16) - 2^15

\* pcmData[i] = s < 0 ? s * 0x8000 : s * 0x7FFF
toPcmSample(k) ==
    LET s == clamp(k)
    IN  ToInt16(IF s < 0 THEN s * NegativeScale ELSE s * PositiveScale, Unit)

\* An encoder without the noise gate.
toPcmUngated(w) == [i \in 1..Len(w) |-> toPcmSample(w[i])]

\* The frame onaudioprocess makes of a window: all zeros below the threshold,
\* the converted samples otherwise.
toPcm(w) ==
    IF belowThreshold(w) THEN [i \in 1..Len(w) |-> 0]
    ELSE [i \in 1..Len(w) |-> toPcmSample(w[i])]

\* The window the capture ticks of the session specifications carry.
Silence == <<0>>

\* processor.onaudioprocess of a tap on capture context c, given the window
\* w: a closed context renders no more quanta.
onaudioprocess(c, w) ==
    /\ taps[c] > 0
    /\ capture[c] = "running"
    /\ received' = "none"
    /\ Unrouted
    /\ ObservedFrame(<<>>, IF RefOpen THEN <<Msg(wsRef, "audio", c)>> ELSE <<>>, 0,
                     IF RefOpen THEN w ELSE <<>>, IF RefOpen THEN toPcm(w) ELSE <<>>)
    /\ useEffectSummary(sessionStatus, sessionSummary, pollInterval, fetching, 0)
    /\ UNCHANGED <<error, enableVideo, showConsentModal, refVars, objVars, callVars,
                   tapVars, inVars, cancelled>>

\* captureFrame of an interval made by session s's handler; nothing ever
\* clears the interval.
captureFrame(s) ==
    /\ videoTimers[s] > 0
    /\ Did(<<>>, IF RefOpen THEN <<Msg(wsRef, "video", s)>> ELSE <<>>, 0)
    /\ UNCHANGED <<error, enableVideo, showConsentModal, refVars, objVars, callVars,
                   tapVars, inVars, cancelled>>

\* ------------------------------------------------------------- playback callbacks

\* A debounce timer set by playAudio fires.
debounceFired ==
    /\ debounceTimers > 0
    /\ debounceTimers' = debounceTimers - 1
    /\ \E h \in processAudioQueue(Heap) : Install(h)
    /\ Did(<<>>, <<>>, 0)
    /\ UNCHANGED <<error, enableVideo, showConsentModal, callVars, tapVars, nChunks,
                   byteLength, cancelled>>

\* The media devices enumerateDevices can list: the default output, the
\* communications output, a Bluetooth speaker, two headsets and a
\* microphone.
Devices ==
    {[kind |-> "audiooutput", label |-> "Speakers", deviceId |-> "default"],
     [kind |-> "audiooutput", label |-> "Speakers (Communications)",
      deviceId |-> "communications"],
     [kind |-> "audiooutput", label |-> "Bluetooth Speaker", deviceId |-> "bt"],
     [kind |-> "audiooutput", label |-> "HEADSET Hands-Free AG", deviceId |-> "hf"],
     [kind |-> "audiooutput", label |-> "Headset Stereo", deviceId |-> "hs"],
     [kind |-> "audioinput", label |-> "Headset Microphone", deviceId |-> "mic"]}

\* d.label.toLowerCase().includes(word), for the three words the routing
\* looks for: the words each label contains once in lower case.
includes(label, word) ==
    word \in CASE label = "Bluetooth Speaker" -> {"bluetooth"}
               [] label = "HEADSET Hands-Free AG" -> {"headset", "hands-free"}
               [] label = "Headset Stereo" -> {"headset"}
               [] label = "Headset Microphone" -> {"headset"}
               [] OTHER -> {}

\* What Array.prototype.find gives when no element passes the test
undefined == [kind |-> "undefined", label |-> "undefined", deviceId |-> "undefined"]

\* devices.find(test), given the positions whose element passes the test:
\* the first such element, undefined when there is none
find(devices, passing) ==
    IF passing = {} THEN undefined
    ELSE devices[CHOOSE i \in passing : \A j \in passing : i <= j]

\* A filter that keeps every device, whatever its kind.
everyDevice(devices) == devices

\* devices.filter(d => d.kind === 'audiooutput')
audioOutputs(devices) ==
    LET isOutput(d) == d.kind = "audiooutput"
    IN  SelectSeq(devices, isOutput)

\* btDevice: Hands-Free or headset, then Bluetooth, then Communications
btDevice(devices) ==
    LET outs == audioOutputs(devices)
        handsFree == {i \in 1..Len(outs) : \/ includes(outs[i].label, "hands-free")
                                            \/ includes(outs[i].label, "headset")}
        bluetooth == {i \in 1..Len(outs) : includes(outs[i].label, "bluetooth")}
        communications == {i \in 1..Len(outs) : outs[i].deviceId = "communications"}
        first == find(outs, handsFree)
        second == IF first = undefined THEN find(outs, bluetooth) ELSE first
    IN  IF second = undefined THEN find(outs, communications) ELSE second

\* What enumerateDevices gives: a list of devices, or it throws.
Enumerations ==
    {[ok |-> FALSE, devices |-> <<>>]} \cup
    {[ok |-> TRUE, devices |-> l] :
        l \in UNION {[1..n -> Devices] : n \in 0..MaxDevices}}

\* How setSinkId goes when it is called: it resolves, it rejects, or the
\* context has no such method.
SinkOutcomes == {"resolves", "rejects", "unsupported"}

\* The sink of the playback context after the routing block: the device
\* found when setSinkId took it, the platform default otherwise.
routed(found, how) ==
    IF found.ok /\ btDevice(found.devices) # undefined /\ how = "resolves"
    THEN btDevice(found.devices).deviceId
    ELSE "default"

\* A suspended processAudioQueue call continues after its awaits: the routing
\* block when the call made its context, with what enumerateDevices gave and
\* how setSinkId went, then the resume and the rest.
processAudioQueueRouted(p, found, how) ==
    /\ p \in pending
    /\ \E h \in playUnit([Heap EXCEPT !.pending = @ \ {p}], p.chunks, p.ctx) :
          Install(h)
    /\ ObservedFrame(<<>>, <<>>, 0, <<>>, <<>>)
    /\ received' = "none"
    /\ enumerated' = IF p.fresh THEN found ELSE NotEnumerated
    /\ sinkId' = IF p.fresh THEN routed(found, how) ELSE "none"
    /\ useEffectSummary(sessionStatus, sessionSummary, pollInterval, fetching, 0)
    /\ UNCHANGED <<error, enableVideo, showConsentModal, callVars, tapVars, inVars,
                   cancelled>>

\* The continuation when enumerateDevices lists no device.
processAudioQueueResumed(p) ==
    processAudioQueueRouted(p, [ok |-> TRUE, devices |-> <<>>], "resolves")

\* A completion handler that leaves queued chunks to a debounce timer.
onendedDebounced(n) ==
    /\ n \in 1..Len(units)
    /\ units[n].state \in {"playing", "stopped"}
    /\ Install([Heap EXCEPT !.units[n].state = "ended",
                            !.activeSourceNodeRef = IF @ = n THEN 0 ELSE @,
                            !.isPlayingAudioRef = FALSE])
    /\ debounceTimers' = IF isSessionActiveRef /\ audioQueueRef2 # <<>>
                         THEN debounceTimers + 1 ELSE debounceTimers
    /\ Did(IF isSessionActiveRef /\ audioQueueRef2 = <<>> /\ wsRef # 0
           THEN <<"listening">> ELSE <<>>, <<>>, 0)
    /\ UNCHANGED <<error, enableVideo, showConsentModal, callVars, tapVars, nChunks,
                   byteLength, cancelled>>

\* sourceNode.onended of unit n: the unit played to its end, or stop() ended it.
onended(n) ==
    /\ n \in 1..Len(units)
    /\ units[n].state \in {"playing", "stopped"}
    /\ LET h0 == [Heap EXCEPT !.units[n].state = "ended",
                              !.activeSourceNodeRef = IF @ = n THEN 0 ELSE @,
                              !.isPlayingAudioRef = FALSE]
       IN  IF isSessionActiveRef /\ audioQueueRef2 # <<>>
           THEN /\ \E h \in processAudioQueue(h0) : Install(h)
                /\ Did(<<>>, <<>>, 0)
           ELSE /\ Install(h0)
                /\ Did(IF isSessionActiveRef /\ wsRef # 0 THEN <<"listening">> ELSE <<>>,
                       <<>>, 0)
    /\ UNCHANGED <<error, enableVideo, showConsentModal, callVars, tapVars, inVars,
                   cancelled>>

\* ------------------------------------------------------------- summary fallback

\* Date.now() - sessionTime < 300000: the limit, in milliseconds.
FiveMinutes == 300000

\* What a lookup can come back with: an ok response whose started_at is one
\* millisecond short of five minutes ago ("recent") or exactly five minutes
\* ago ("old"), or nothing usable (not ok, or the fetch failed).
Fetched == {"recent", "old", "nothing"}

\* Date.now() - sessionTime for an ok response
elapsed(got) == IF got = "recent" THEN FiveMinutes - 1 ELSE FiveMinutes

\* A test that takes an ok response of any age.
adoptedAnyAge(got) == got # "nothing"

\* res.ok && Date.now() - sessionTime < 300000
adopted(got) == got # "nothing" /\ elapsed(got) < FiveMinutes

\* The response of the lookup in flight arrives and fetchSummary continues.
fetchSummaryResumed(got) ==
    /\ fetching
    /\ Heard(got, <<>>, <<>>, 0)
    /\ useEffectSummary(sessionStatus,
                        IF adopted(got) THEN "received" ELSE sessionSummary,
                        pollInterval, FALSE, 0)
    /\ UNCHANGED <<error, enableVideo, showConsentModal, refVars, objVars, callVars,
                   tapVars, inVars, cancelled>>

\* A tick of setInterval(fetchSummary, 3000).
pollTick ==
    /\ pollInterval
    /\ Observed(<<>>, <<>>, 0)
    /\ useEffectSummary(sessionStatus, sessionSummary, pollInterval, TRUE, 1)
    /\ UNCHANGED <<error, enableVideo, showConsentModal, refVars, objVars, callVars,
                   tapVars, inVars, cancelled>>

\* The 45 s timeout set with the interval clears it.
pollExpired ==
    /\ pollInterval
    /\ Observed(<<>>, <<>>, 0)
    /\ useEffectSummary(sessionStatus, sessionSummary, FALSE, fetching, 0)
    /\ UNCHANGED <<error, enableVideo, showConsentModal, refVars, objVars, callVars,
                   tapVars, inVars, cancelled>>

\* ------------------------------------------------------------- specification

\* The bounds of the exploration: a session is started, a tap or an interval
\* installed, only while its count is below the bound.
CanStart == nSessions < MaxSessions
CanInstall(s) ==
    /\ canCapture => taps[audioContextRef] < MaxTaps
    /\ canVideo(s) => videoTimers[s] < MaxVideoTimers

\* The live session: every gesture and every callback of the session itself.
\* The summary-fallback effect runs with them; the summary message and the
\* lookups' own callbacks are explored by NextSummary, the messages
\* ws.onmessage drops by NextInbound.
Next ==
    \/ \E b \in BOOLEAN : SetEnableVideo(b)
    \/ CanStart /\ requestPermissions
    \/ handleConsentDecline
    \/ CanStart /\ handleConsentAccept
    \/ endSession
    \/ StartNewSession
    \/ \E s \in Sessions, how \in Constructed : getUserMediaResolved(s, how)
    \/ \E s \in Sessions : getUserMediaRejected(s)
    \/ \E s \in Sessions : wsOnOpen(s)
    \/ \E s \in Sessions : wsOnErrorThenClose(s)
    \/ \E s \in Sessions : wsOnClose(s)
    \/ \E s \in Sessions : CanInstall(s) /\ statusConnected(s)
    \/ \E s \in Sessions : statusEnded(s)
    \/ \E s \in Sessions : nChunks < MaxChunks /\ audioMessage(s, 2)
    \/ \E s \in Sessions : textMessage(s)
    \/ \E s \in Sessions : errorMessage(s, "peer error")
    \/ \E c \in Sessions : onaudioprocess(c, Silence)
    \/ \E s \in Sessions : captureFrame(s)
    \/ debounceFired
    \/ \E p \in pending : processAudioQueueResumed(p)
    \/ \E n \in 1..Len(units) : onended(n)

Spec == Init /\ [][Next]_vars

\* The inbound side alone, with a longer burst of audio messages: audio-only
\* sessions that are started, receive audio, are ended by the user and
\* restarted; capture callbacks and the other peer messages are left out.
NextPlayback ==
    \/ CanStart /\ requestPermissions
    \/ CanStart /\ handleConsentAccept
    \/ endSession
    \/ StartNewSession
    \/ \E s \in Sessions : getUserMediaResolved(s, "all")
    \/ \E s \in Sessions : wsOnOpen(s)
    \/ \E s \in Sessions : nChunks < MaxBurst /\ audioMessage(s, 2)
    \/ debounceFired
    \/ \E p \in pending : processAudioQueueResumed(p)
    \/ \E n \in 1..Len(units) : onended(n)

SpecPlayback == Init /\ [][NextPlayback]_vars

\* The same, with every debounce timer eventually firing, every suspended
\* processAudioQueue call eventually continuing and every source that can end
\* eventually delivering its ended event.
SpecPlaybackFair ==
    /\ SpecPlayback
    /\ WF_vars(debounceFired)
    /\ WF_vars(\E p \in pending : processAudioQueueResumed(p))
    /\ WF_vars(\E n \in 1..Len(units) : onended(n))

\* The inbound side over one more start, so that a session can begin while
\* the WebSocket of an earlier one, left open by a later one, still delivers.
CanRestart == nSessions < MaxRestarts

NextLeftover ==
    \/ CanRestart /\ requestPermissions
    \/ CanRestart /\ handleConsentAccept
    \/ endSession
    \/ StartNewSession
    \/ \E s \in Sessions : getUserMediaResolved(s, "all")
    \/ \E s \in Sessions : wsOnOpen(s)
    \/ \E s \in Sessions : nChunks < MaxBurst /\ audioMessage(s, 2)
    \/ debounceFired
    \/ \E p \in pending : processAudioQueueResumed(p)
    \/ \E n \in 1..Len(units) : onended(n)

SpecLeftover == Init /\ [][NextLeftover]_vars

\* The capture side of sessions whose peer may repeat status:connected.
CanConnect(s) ==
    /\ canCapture => taps[audioContextRef] < MaxConnected
    /\ canVideo(s) => videoTimers[s] < MaxConnected

NextTaps ==
    \/ \E b \in BOOLEAN : SetEnableVideo(b)
    \/ CanStart /\ requestPermissions
    \/ CanStart /\ handleConsentAccept
    \/ endSession
    \/ StartNewSession
    \/ \E s \in Sessions, how \in Constructed : getUserMediaResolved(s, how)
    \/ \E s \in Sessions : wsOnOpen(s)
    \/ \E s \in Sessions : CanConnect(s) /\ statusConnected(s)
    \/ \E s \in Sessions : statusEnded(s)
    \/ \E c \in Sessions : onaudioprocess(c, Silence)
    \/ \E s \in Sessions : captureFrame(s)

SpecTaps == Init /\ [][NextTaps]_vars

\* The audio routing: one audio-only session that receives audio, with every
\* enumeration and every outcome of setSinkId.
NextRouting ==
    \/ nSessions = 0 /\ requestPermissions
    \/ nSessions = 0 /\ handleConsentAccept
    \/ endSession
    \/ \E s \in Sessions : getUserMediaResolved(s, "all")
    \/ \E s \in Sessions : wsOnOpen(s)
    \/ \E s \in Sessions : nChunks < MaxChunks /\ audioMessage(s, 2)
    \/ debounceFired
    \/ \E p \in pending, found \in Enumerations, how \in SinkOutcomes :
          processAudioQueueRouted(p, found, how)
    \/ \E n \in 1..Len(units) : onended(n)

SpecRouting == Init /\ [][NextRouting]_vars

\* Everything the peer can send: audio-only sessions that are started, ended
\* by the user or the peer and restarted, every message handleServerMessage
\* has a branch for except the summary, and the messages it drops.
NextInbound ==
    \/ CanStart /\ requestPermissions
    \/ CanStart /\ handleConsentAccept
    \/ endSession
    \/ StartNewSession
    \/ \E s \in Sessions : getUserMediaResolved(s, "all")
    \/ \E s \in Sessions : wsOnOpen(s)
    \/ \E s \in Sessions : CanInstall(s) /\ statusConnected(s)
    \/ \E s \in Sessions : statusEnded(s)
    \/ \E s \in Sessions : nChunks < MaxChunks /\ audioMessage(s, 2)
    \/ \E s \in Sessions : textMessage(s)
    \/ \E s \in Sessions, what \in Dropped : ignoredMessage(s, what)
    \/ \E s \in Sessions, text \in ErrorTexts : errorMessage(s, text)
    \/ debounceFired
    \/ \E p \in pending : processAudioQueueResumed(p)
    \/ \E n \in 1..Len(units) : onended(n)

SpecInbound == Init /\ [][NextInbound]_vars

\* The byte lengths a decoded chunk is given: an odd one and an even one.
ByteLengths == {1, 2}

\* The inbound side with chunks of either length.
NextDecode ==
    \/ CanStart /\ requestPermissions
    \/ CanStart /\ handleConsentAccept
    \/ endSession
    \/ StartNewSession
    \/ \E s \in Sessions : getUserMediaResolved(s, "all")
    \/ \E s \in Sessions : wsOnOpen(s)
    \/ \E s \in Sessions, len \in ByteLengths : nChunks < MaxBurst /\ audioMessage(s, len)
    \/ debounceFired
    \/ \E p \in pending : processAudioQueueResumed(p)
    \/ \E n \in 1..Len(units) : onended(n)

SpecDecode == Init /\ [][NextDecode]_vars

\* Every way a session acquires and gives up what cleanup releases: audio-only
\* sessions with every outcome of startLiveSession, every socket event, the
\* peer ending the session, and inbound audio; the capture callbacks and the
\* peer's other messages, which touch nothing cleanup releases, are left out.
NextReaper ==
    \/ CanStart /\ requestPermissions
    \/ CanStart /\ handleConsentAccept
    \/ endSession
    \/ StartNewSession
    \/ \E s \in Sessions, how \in Constructed : getUserMediaResolved(s, how)
    \/ \E s \in Sessions : getUserMediaRejected(s)
    \/ \E s \in Sessions : wsOnOpen(s)
    \/ \E s \in Sessions : wsOnErrorThenClose(s)
    \/ \E s \in Sessions : wsOnClose(s)
    \/ \E s \in Sessions : statusEnded(s)
    \/ \E s \in Sessions : nChunks < MaxChunks /\ audioMessage(s, 2)
    \/ debounceFired
    \/ \E p \in pending : processAudioQueueResumed(p)
    \/ \E n \in 1..Len(units) : onended(n)

SpecReaper == Init /\ [][NextReaper]_vars

\* The hand-off to the summary: audio-only sessions that connect, are ended by
\* the user, the peer or the transport, and are restarted; the summary message,
\* the fallback lookups, their interval and its timeout.
NextSummary ==
    \/ CanStart /\ requestPermissions
    \/ handleConsentDecline
    \/ CanStart /\ handleConsentAccept
    \/ endSession
    \/ StartNewSession
    \/ \E s \in Sessions : getUserMediaResolved(s, "all")
    \/ \E s \in Sessions : wsOnOpen(s)
    \/ \E s \in Sessions : wsOnErrorThenClose(s)
    \/ \E s \in Sessions : wsOnClose(s)
    \/ \E s \in Sessions : CanInstall(s) /\ statusConnected(s)
    \/ \E s \in Sessions : statusEnded(s)
    \/ \E s \in Sessions : summaryMessage(s)
    \/ \E s \in Sessions : errorMessage(s, "peer error")
    \/ \E got \in Fetched : fetchSummaryResumed(got)
    \/ pollTick
    \/ pollExpired

SpecSummary == Init /\ [][NextSummary]_vars

\* The same, with the 45 s timeout of a running interval eventually firing.
SpecSummaryFair == SpecSummary /\ WF_vars(pollExpired)

\* The amplitudes explored: full scale and one beyond it on both sides, nine
\* tenths of full scale, and the ones around the noise threshold.
Samples == {-(Unit + 1), -Unit, -2, 0, 1, 2, 3, Unit - Unit \div 10, Unit, Unit + 1}

Windows == UNION {[1..n -> Samples] : n \in 1..MaxWindow}

\* The outbound encoder: a session that connects and captures, its ticks
\* carrying every window.
NextEncoder ==
    \/ CanStart /\ requestPermissions
    \/ CanStart /\ handleConsentAccept
    \/ endSession
    \/ \E s \in Sessions : getUserMediaResolved(s, "all")
    \/ \E s \in Sessions : wsOnOpen(s)
    \/ \E s \in Sessions : CanInstall(s) /\ statusConnected(s)
    \/ \E c \in Sessions, w \in Windows : onaudioprocess(c, w)

SpecEncoder == Init /\ [][NextEncoder]_vars

\* ------------------------------------------------------------- claims

\* The phases the last callback went through: the phase before it, then each
\* setSessionStatus call it made.
Trace == <<sessionStatus>> \o phaseWrites'
Steps == 1..Len(phaseWrites')

Terminal == {"ended", "error"}

\* A step taken by the user: a button of the page.
UserGesture ==
    \/ \E b \in BOOLEAN : SetEnableVideo(b)
    \/ requestPermissions
    \/ handleConsentDecline
    \/ handleConsentAccept
    \/ endSession
    \/ StartNewSession

\* Session s holds nothing: its tracks are stopped, its capture context is
\* closed, and close() was called on its socket if it was ever made.
Released(s) ==
    /\ stream[s] # "live"
    /\ capture[s] # "running"
    /\ socket[s] \notin {"CONNECTING", "OPEN"}

PlaybackReleased == \A i \in 1..Len(playback) : playback[i] = "closed"

Playing == {n \in 1..Len(units) : units[n].state = "playing"}

\* C1: every callback that moves the phase into ended or error from another
\* phase also invokes cleanup.
C1_ReaperOnEveryTerminalTransition ==
    [][(\E i \in Steps : Trace[i + 1] \in Terminal /\ Trace[i] # Trace[i + 1])
          => cleanupCalls' >= 1]_vars

\* C2: once the phase is ended or error, no callback of the browser (message,
\* close, error, playback completion, timer, getUserMedia resolution) sets it
\* to another value; only a gesture of the user does.
C2_TerminalPhasesStay ==
    [][~UserGesture =>
          \A i \in Steps : Trace[i] \in Terminal => Trace[i + 1] = Trace[i]]_vars

\* C3: the phase becomes speaking only from listening (or stays speaking).
C3_SpeakingOnlyFromListening ==
    [][\A i \in Steps :
          Trace[i + 1] = "speaking" => Trace[i] \in {"listening", "speaking"}]_vars

\* C4: the phase becomes connected only from connecting (or stays connected).
C4_ConnectedOnlyFromConnecting ==
    [][\A i \in Steps :
          Trace[i + 1] = "connected" => Trace[i] \in {"connecting", "connected"}]_vars

\* C5: at no time are two started playback units both still playing (neither
\* ended nor stopped).
C5_PlaybackNeverOverlaps == Cardinality(Playing) <= 1

\* C6: after endSession or a transition into error, and until the user starts
\* a session again, no callback sends an audio or video message.
C6_NoFrameAfterCancellation ==
    cancelled => \A i \in 1..Len(sends) : sends[i].type \notin {"audio", "video"}

\* C7: when startLiveSession begins, every earlier session's stream, capture
\* context, socket and playback context has been released.
C7_StartOnlyAfterReaper ==
    [][nSessions' > nSessions =>
          (\A s \in 1..nSessions : Released(s)) /\ PlaybackReleased]_vars

\* C8: at most one live media stream, at most one running capture context with
\* a tap, at most one connecting or open socket; every audio or video message
\* goes out on the socket of the session whose tap or timer produced it.
C8_AtMostOneSession ==
    /\ Cardinality({s \in Sessions : stream[s] = "live"}) <= 1
    /\ Cardinality({s \in Sessions : capture[s] = "running" /\ taps[s] > 0}) <= 1
    /\ Cardinality({s \in Sessions : socket[s] \in {"CONNECTING", "OPEN"}}) <= 1
    /\ \A i \in 1..Len(sends) :
          sends[i].type \in {"audio", "video"} => sends[i].origin = sends[i].ws

\* C9: while the phase is error no device is held: no stream is live, no
\* capture context runs, no playback context is open, no socket is connecting
\* or open.
C9_NothingHeldInError ==
    sessionStatus = "error" => (\A s \in Sessions : Released(s)) /\ PlaybackReleased

\* Everything cleanup is to leave behind: every ref null, the queue empty, both
\* flags false.
Reaped(h) ==
    /\ h.wsRef = 0 /\ h.audioContextRef = 0 /\ h.mediaStreamRef = 0
    /\ h.activeAudioContextRef = 0 /\ h.activeSourceNodeRef = 0
    /\ h.audioQueueRef2 = <<>>
    /\ ~h.isPlayingAudioRef /\ ~h.isSessionActiveRef

\* C10: in every reachable state, cleanup run twice leaves what cleanup run
\* once leaves, and that has every handle null, the inbound queue empty,
\* isPlaying and isSessionActive false.
C10_ReaperIdempotent ==
    /\ cleanup(cleanup(Heap)) = cleanup(Heap)
    /\ Reaped(cleanup(Heap))

\* C10 witness: cleanup has just run on a session that held everything: it
\* stopped a playing unit, closed the playback and capture contexts, stopped
\* the stream and closed the socket.
C10_Witness ==
    /\ cleanupCalls = 1
    /\ Reaped(Heap)
    /\ \E n \in 1..Len(units) : units[n].state = "stopped"
    /\ \E s \in Sessions :
          /\ stream[s] = "stopped" /\ capture[s] = "closed"
          /\ socket[s] = "CLOSING"
    /\ \E i \in 1..Len(playback) : playback[i] = "closed"

\* C11: from every reachable state, the partially initialised ones included,
\* cleanup leaves every ref null, the queue empty and both flags false; the
\* source node, playback context, capture context, stream and socket the refs
\* held are stopped or closed, no playback context is left open and no unit
\* plays on an open one; objects the refs did not hold are left as they were.
C11_CleanupFromAnyState ==
    LET h == cleanup(Heap)
    IN  /\ Reaped(h)
        /\ activeSourceNodeRef # 0 => h.units[activeSourceNodeRef].state # "playing"
        /\ \A i \in 1..Len(h.playback) : h.playback[i] = "closed"
        /\ audioContextRef # 0 => h.capture[audioContextRef] = "closed"
        /\ mediaStreamRef # 0 => h.stream[mediaStreamRef] = "stopped"
        /\ wsRef # 0 => h.socket[wsRef] \notin {"CONNECTING", "OPEN"}
        /\ \A s \in Sessions :
              /\ s # audioContextRef => h.capture[s] = capture[s]
              /\ s # mediaStreamRef => h.stream[s] = stream[s]
              /\ s # wsRef => h.socket[s] = socket[s]
        /\ \A n \in 1..Len(units) : n # activeSourceNodeRef => h.units[n] = units[n]
        /\ Len(h.units) = Len(units) /\ Len(h.playback) = Len(playback)
        /\ h.pending = pending

\* C11 witness: cleanup has just run on a session that had its stream and
\* capture context, a socket still connecting and no playback context.
C11_Witness ==
    /\ cleanupCalls = 1
    /\ Reaped(Heap)
    /\ playback = <<>>
    /\ \E s \in Sessions :
          stream[s] = "stopped" /\ capture[s] = "closed" /\ socket[s] = "ABORTING"

\* getUserMedia of session s has just rejected.
Rejected(s) == call[s] = "getUserMedia" /\ call'[s] = "done" /\ stream'[s] = "none"

\* C12: when getUserMedia rejects, the phase becomes error, the session has no
\* stream, no capture context and no socket, and the callback invokes cleanup.
C12_AcquisitionFailure ==
    [][\A s \in Sessions : Rejected(s) =>
          /\ sessionStatus' = "error"
          /\ stream'[s] = "none" /\ capture'[s] = "none" /\ socket'[s] = "NONE"
          /\ cleanupCalls' >= 1]_vars

\* C13: on every socket the first message sent is config, it is sent once
\* (exactly once on a socket that has opened), and it carries the enableVideo
\* the session was started with; so nothing precedes it, whichever tap or
\* interval sends.
C13_ConfigFirstAndOnce ==
    \A s \in Sessions :
        /\ outbox[s].first \in {"none", "config"}
        /\ outbox[s].configs <= 1
        /\ socket[s] \in {"OPEN", "CLOSING"} => outbox[s].configs = 1
        /\ outbox[s].configs = 1 => outbox[s].enable_video = closure[s].enableVideo

\* C13 witness: a tap installed by the first session has just sent an audio
\* message on the second session's socket, which had carried its config.
C13_Witness ==
    \E i \in 1..Len(sends) :
        /\ sends[i].type = "audio" /\ sends[i].origin # sends[i].ws
        /\ outbox[sends[i].ws].first = "config"
        /\ outbox[sends[i].ws].configs = 1

\* C14: a video message is sent only on a socket whose config message said
\* enable_video = true.
C14_VideoOnlyIfEnabled ==
    \A i \in 1..Len(sends) :
        sends[i].type = "video" => outbox[sends[i].ws].enable_video

\* The chunks of a sequence, as a set.
Range(q) == {q[i] : i \in 1..Len(q)}

\* Every chunk that is queued, held by a suspended processAudioQueue call or
\* handed to a source node.
Held ==
    Range(audioQueueRef2)
        \cup UNION {Range(p.chunks) : p \in pending}
        \cup UNION {Range(units[n].chunks) : n \in 1..Len(units)}

\* Chunks number themselves in arrival order.
Ascending(q) == \A i, j \in 1..Len(q) : i < j => q[i] < q[j]

\* The holders of chunk c: the queue, suspended calls, source nodes.
Holders(c) ==
    (IF c \in Range(audioQueueRef2) THEN {<<"queue", 0>>} ELSE {})
        \cup {<<"pending", p>> : p \in {q \in pending : c \in Range(q.chunks)}}
        \cup {<<"unit", n>> : n \in {k \in 1..Len(units) : c \in Range(units[k].chunks)}}

\* The units submitted to an output device: those started on an open context.
Audible == {n \in 1..Len(units) : units[n].state # "mute"}

\* C15: as long as no playback attempt has thrown, the units submitted to the
\* output device one after the other carry the chunks in arrival order: inside
\* a unit the chunks ascend, every chunk of a unit arrived before every chunk
\* of a unit started after it, and no chunk is held twice.
C15_PlayedInArrivalOrder ==
    ~threw =>
        /\ \A c \in Held : Cardinality(Holders(c)) = 1
        /\ \A m, n \in Audible :
              /\ Ascending(units[n].chunks)
              /\ m < n =>
                    \A c \in Range(units[m].chunks), d \in Range(units[n].chunks) : c < d

\* A call of processAudioQueue has just taken chunks off the queue.
TookFromQueue == cleanupCalls' = 0 /\ Len(audioQueueRef2') < Len(audioQueueRef2)

Closed(s) ==
    /\ socket[s] # "CLOSED" /\ socket'[s] = "CLOSED"
    /\ \A i \in 1..Len(phaseWrites') : phaseWrites'[i] # "error"

\* C17: when a socket closes while the phase is neither ended nor error and
\* no summary has been received, the phase becomes ended and the effect starts
\* the polling: the interval is set and at least one lookup is made.
C17_CloseStartsFallback ==
    [][\A s \in Sessions :
          (Closed(s) /\ sessionStatus \notin Terminal /\ sessionSummary = "null") =>
              sessionStatus' = "ended" /\ pollInterval' /\ lookups' >= 1]_vars

\* C18: every tick on an open socket sends an audio message whose frame has
\* as many samples as the window; when the window's RMS is below the
\* threshold every sample of the frame is zero; the frame is a function of the
\* window alone.
C18_NoiseGateUniformCadence ==
    inputData # <<>> =>
        /\ \E i \in 1..Len(sends) : sends[i].type = "audio"
        /\ Len(pcmData) = Len(inputData)
        /\ belowThreshold(inputData) => \A i \in 1..Len(pcmData) : pcmData[i] = 0
        /\ pcmData = toPcm(inputData)

\* C18 witness: a window of two samples that are not zero, with RMS below the
\* threshold, has been sent as a frame of two zeros.
C18_Witness ==
    /\ inputData = <<2, 1>>
    /\ pcmData = <<0, 0>>
    /\ \E i \in 1..Len(sends) : sends[i].type = "audio"

\* 32768.0, the divisor of the Int16 to Float32 conversion
DecodeScale == 32768

\* float32Data[i] = int16Data[i] / 32768.0, as a rational
toFloat32(v) == [num |-> v, den |-> DecodeScale]

Abs(x) == IF x < 0 THEN -x ELSE x

\* |k / Unit - f.num / f.den| <= 1 / DecodeScale, the denominators multiplied out
WithinOneLSB(k, f) ==
    Abs(k * f.den - f.num * Unit) * DecodeScale <= Unit * f.den

\* C19: every sample in [-1, 1] of a window that was converted (not gated),
\* decoded back by the inbound conversion, is within 1 / 32768 of itself.
C19_RoundTripWithinOneLSB ==
    (inputData # <<>> /\ ~belowThreshold(inputData)) =>
        \A i \in 1..Len(inputData) :
            Abs(inputData[i]) <= Unit =>
                WithinOneLSB(inputData[i], toFloat32(pcmData[i]))

Running(pb) == {i \in 1..Len(pb) : pb[i] = "running"}

\* C20: a playback context is made only while none is open, and becomes the
\* one activeAudioContextRef holds; an open one is closed only by a callback
\* that invokes cleanup; so at most one is open at a time, no more contexts
\* are made than sessions started, and every unit that plays is on the
\* context the ref holds.
C20_OnePlaybackContextPerSession ==
    [][/\ Len(playback') > Len(playback) =>
             /\ Running(playback) = {}
             /\ Len(playback') = Len(playback) + 1
             /\ activeAudioContextRef' = Len(playback')
       /\ \A i \in Running(playback) : playback'[i] # "running" => cleanupCalls' >= 1
       /\ Cardinality(Running(playback')) <= 1
       /\ Running(playback') \subseteq {activeAudioContextRef'}
       /\ Len(playback') <= nSessions'
       /\ \A n \in 1..Len(units') :
             (n > Len(units) /\ units'[n].state = "playing") =>
                 units'[n].ctx = activeAudioContextRef']_vars

\* C20 witness: in the first session a second unit plays on the context the
\* first unit, now ended, was played on; no other context was made.
C20_Witness ==
    /\ nSessions = 1 /\ Len(playback) = 1 /\ playback[1] = "running"
    /\ \E m, n \in 1..Len(units) :
          /\ m < n /\ units[m].ctx = 1 /\ units[n].ctx = 1
          /\ units[m].state = "ended" /\ units[n].state = "playing"

\* C21: a WebSocket is constructed only by the startLiveSession call whose
\* getUserMedia has just resolved, once per call; getUserMedia is requested
\* only in the step where the user accepts the consent modal; a socket that
\* failed or closed is never connecting again.
C21_NoAutomaticRetry ==
    [][\A s \in Sessions :
          /\ (socket'[s] = "CONNECTING" /\ socket[s] # "CONNECTING") =>
                 socket[s] = "NONE" /\ call[s] = "getUserMedia" /\ call'[s] = "done"
          /\ (call'[s] = "getUserMedia" /\ call[s] # "getUserMedia") =>
                 call[s] = "none" /\ handleConsentAccept
          /\ socket[s] # "NONE" => socket'[s] # "NONE"]_vars

\* C21 witness: the first session's socket has failed, the phase is terminal,
\* and no second getUserMedia request or socket has been made.
C21_Witness ==
    /\ socket[1] = "CLOSED" /\ error = "Connection error"
    /\ sessionStatus \in Terminal
    /\ nSessions = 1 /\ call[2] = "none" /\ socket[2] = "NONE"

\* Unit n has just completed: its onended handler ran.
Completed(n) ==
    /\ n \in 1..Len(units)
    /\ units[n].state \in {"playing", "stopped"}
    /\ units'[n].state = "ended"

\* The completion handler itself took the whole queue into a new cycle: a
\* suspended call or a started unit, unless the attempt threw; it set no
\* timer and wrote no phase.
Continued ==
    /\ audioQueueRef2' = <<>>
    /\ debounceTimers' = debounceTimers
    /\ phaseWrites' = <<>>
    /\ \/ threw' /\ ~isPlayingAudioRef'
       \/ Len(units') = Len(units) + 1
             /\ units'[Len(units')].chunks = audioQueueRef2
       \/ \E p \in pending' \ pending : p.chunks = audioQueueRef2

PlaybackFailed ==
    /\ cleanupCalls' = 0
    /\ Len(units') = Len(units)
    /\ \/ audioQueueRef2 # <<>> /\ audioQueueRef2' = <<>> /\ pending' = pending
       \/ isSessionActiveRef /\ \E p \in pending : pending' = pending \ {p}

\* C23: a playback failure, the bytes that cannot be converted included, is
\* absorbed locally: the phase stays as it is, no stream, capture context or
\* socket changes, and isPlayingAudioRef is reset to false.
C23_PlaybackFailureAbsorbed ==
    [][PlaybackFailed =>
          /\ sessionStatus' = sessionStatus
          /\ stream' = stream /\ capture' = capture /\ socket' = socket
          /\ wsRef' = wsRef /\ audioContextRef' = audioContextRef
          /\ mediaStreamRef' = mediaStreamRef
          /\ ~isPlayingAudioRef']_vars


\* ws.onmessage of session s ran on a message it drops or on a text message.
DroppedMessage(s) ==
    textMessage(s) \/ \E what \in Dropped : ignoredMessage(s, what)

\* C24: an unparseable message, one of unknown type, a status of unknown
\* value and a text message change nothing: the phase, the queue, the
\* in-flight and active flags and every handle and resource stay as they are,
\* and the socket stays open to later messages.
C24_TolerantParsing ==
    [][\A s \in Sessions : DroppedMessage(s) =>
          /\ sessionStatus' = sessionStatus /\ error' = error
          /\ phaseWrites' = <<>> /\ cleanupCalls' = 0 /\ sends' = <<>>
          /\ audioQueueRef2' = audioQueueRef2
          /\ isPlayingAudioRef' = isPlayingAudioRef
          /\ isSessionActiveRef' = isSessionActiveRef
          /\ refVars' = refVars /\ objVars' = objVars /\ tapVars' = tapVars
          /\ debounceTimers' = debounceTimers
          /\ socket'[s] = "OPEN"]_vars

\* C24 witness: a message of unknown type was dropped while a unit plays in
\* the speaking phase of an active session.
C24_Witness ==
    /\ received = "unknown type"
    /\ sessionStatus = "speaking" /\ isSessionActiveRef /\ isPlayingAudioRef
    /\ \E n \in 1..Len(units) : units[n].state = "playing"
    /\ wsRef # 0 /\ socket[wsRef] = "OPEN"


\* C25: a capture tick of a session puts exactly one audio message on that
\* session's channel when the channel is open and none anywhere otherwise, so
\* that a channel carries its own session's frames, one per tick.
C25_OneFramePerTickOnOwnChannel ==
    [][\A c \in Sessions : onaudioprocess(c, Silence) =>
          sends' = IF socket[c] = "OPEN" THEN <<Msg(c, "audio", c)>> ELSE <<>>]_vars


\* An onaudioprocess tap is installed on a capture context that runs.
TapInstalled == \E c \in Sessions : taps[c] > 0 /\ capture[c] = "running"

\* C26: the phase is listening only while an audio tap is installed.
C26_ListeningOnlyWithTap == sessionStatus = "listening" => TapInstalled


\* C27: whenever the phase is error a cause is set: error is neither null
\* nor undefined.
C27_ErrorCarriesCause == sessionStatus = "error" => error \notin {"null", "undefined"}


\* C28: a lookup is issued only when the phase is ended and no summary is
\* present, and a response changes the summary only when it is ok and its
\* started_at is less than five minutes old.
C28_FallbackOnlyWithoutSummary ==
    [][/\ lookups' > 0 => sessionStatus' = "ended" /\ sessionSummary' = "null"
       /\ (received' \in Fetched /\ sessionSummary' # sessionSummary) =>
             received' # "nothing" /\ elapsed(received') < FiveMinutes]_vars

\* C28 witness: in the ended phase a lookup came back recent and its result
\* is the summary; the polling has stopped.
C28_Witness ==
    /\ received = "recent" /\ sessionSummary = "received"
    /\ sessionStatus = "ended" /\ ~pollInterval /\ lookups = 0


\* C29: when getUserMedia of a call resolves after the user ended the session
\* (the phase is ended, the active flag cleared), the call acquires nothing:
\* it keeps no stream, makes no capture context and no WebSocket, leaves the
\* refs as cleanup left them, and the phase stays ended.
C29_LateResolutionAcquiresNothing ==
    [][\A s \in Sessions :
          (/\ sessionStatus = "ended" /\ ~isSessionActiveRef
           /\ \E how \in Constructed : getUserMediaResolved(s, how)) =>
              /\ stream'[s] # "live" /\ capture'[s] # "running"
              /\ socket'[s] = "NONE"
              /\ mediaStreamRef' = mediaStreamRef
              /\ audioContextRef' = audioContextRef
              /\ wsRef' = wsRef
              /\ sessionStatus' = "ended"]_vars


\* C30: once cleanup has run (wsRef is null again, which only cleanup does
\* after an interval was made) no captureFrame callback of an interval runs.
C30_ReaperStopsVideoTimer ==
    [][\A s \in Sessions : captureFrame(s) => wsRef # 0]_vars


\* C31: a processAudioQueue call that continues after cleanup has run, which
\* its playback context being closed shows, starts no source node and leaves
\* isPlayingAudioRef false.
C31_NoUnitAfterReaper ==
    [][\A p \in pending :
          (playback[p.ctx] = "closed" /\ processAudioQueueResumed(p)) =>
              /\ Len(units') = Len(units)
              /\ ~isPlayingAudioRef']_vars


\* C32: an end message is the only message of its callback, which is the
\* user's endSession (one cleanup, the phase set to ended, no inbound message
\* handled); it goes to a channel that is open and that the same callback
\* closes. Every message goes to a channel that is open or opens in that
\* callback, and a channel that is closing or closed never opens again: so a
\* channel carries at most one end message and nothing after it.
C32_EndOnceAndLast ==
    [][/\ \A i \in 1..Len(sends') :
             /\ \/ socket[sends'[i].ws] = "OPEN"
                \/ socket[sends'[i].ws] = "CONNECTING" /\ socket'[sends'[i].ws] = "OPEN"
             /\ sends'[i].type = "end" =>
                   /\ Len(sends') = 1
                   /\ cleanupCalls' = 1 /\ phaseWrites' = <<"ended">>
                   /\ received' = "none" /\ cancelled'
                   /\ socket'[sends'[i].ws] \in {"CLOSING", "CLOSED"}
       /\ \A s \in Sessions :
             socket[s] \in {"CLOSING", "ABORTING", "CLOSED"} => socket'[s] # "OPEN"]_vars

\* C32 witness: endSession sent the end message on the open channel of the
\* listening session and the channel is closing.
C32_Witness ==
    /\ sends = <<Msg(1, "end", 1)>> /\ socket[1] = "CLOSING"
    /\ sessionStatus = "ended" /\ wsRef = 0 /\ taps[1] > 0
    /\ outbox[1].first = "config"


\* C33: in a frame that was converted (not gated) every value lies in
\* [-32768, 32767]; a sample at or above +1 gives 32767, one at or below -1
\* gives -32768, and a sample in between gives its scaled value truncated,
\* less than 1 away from it: the store into the Int16Array never wraps.
C33_ScalingNeverWraps ==
    (inputData # <<>> /\ ~belowThreshold(inputData)) =>
        \A i \in 1..Len(inputData) :
            LET k == inputData[i]
                v == pcmData[i]
            IN  /\ -NegativeScale <= v /\ v <= PositiveScale
                /\ k >= Unit => v = PositiveScale
                /\ k <= -Unit => v = -NegativeScale
                /\ (-Unit <= k /\ k <= Unit) =>
                      Abs(v * Unit - k * (IF k < 0 THEN NegativeScale ELSE PositiveScale))
                          < Unit

\* C33 witness: a window with a sample beyond full scale on each side was
\* sent as the frame of the two extreme values.
C33_Witness ==
    /\ inputData = <<Unit + 1, -(Unit + 1)>>
    /\ pcmData = <<PositiveScale, -NegativeScale>>
    /\ \E i \in 1..Len(sends) : sends[i].type = "audio"


\* C34: a lookup is issued only by polling that is running after it; polling
\* runs only while the phase is ended and no summary is present; once
\* stopped it starts again only when the phase or the summary changes; and
\* polling that runs eventually stops (the 45 s timeout, a summary, or the
\* phase leaving ended).
C34_PollingTerminates ==
    /\ [][/\ lookups' > 0 => pollInterval'
          /\ pollInterval' => sessionStatus' = "ended" /\ sessionSummary' = "null"
          /\ (~pollInterval /\ pollInterval') =>
                (sessionStatus' # sessionStatus \/ sessionSummary' # sessionSummary)]_vars
    /\ (pollInterval ~> ~pollInterval)

\* C34 witness: a session has ended, no summary has come, and the polling has
\* been stopped by its timeout.
C34_Witness ==
    /\ sessionStatus = "ended" /\ sessionSummary = "null"
    /\ ~pollInterval /\ ~fetching /\ received = "nothing"


\* The position in a device list that the selection rule names: among the
\* audio outputs, the first hands-free or headset label, else the first
\* Bluetooth label, else the communications device; 0 when there is none.
Preferred(devices) ==
    LET outs == {i \in 1..Len(devices) : devices[i].kind = "audiooutput"}
        headsets == {i \in outs : \/ includes(devices[i].label, "hands-free")
                                  \/ includes(devices[i].label, "headset")}
        bluetooths == {i \in outs : includes(devices[i].label, "bluetooth")}
        comms == {i \in outs : devices[i].deviceId = "communications"}
        least(S) == CHOOSE i \in S : \A j \in S : i <= j
    IN  IF headsets # {} THEN least(headsets)
        ELSE IF bluetooths # {} THEN least(bluetooths)
        ELSE IF comms # {} THEN least(comms)
        ELSE 0

\* C35: when a processAudioQueue call that made its playback context
\* continues, the context's sink is the device the selection rule names if
\* enumeration gave a list, the rule names a device and setSinkId took it, and
\* the platform default in every other case; and whatever the routing did,
\* the call starts its unit when the session is still active and neither the
\* resume nor the start throws.
C35_OutputDeviceSelection ==
    [][\A p \in pending, found \in Enumerations, how \in SinkOutcomes :
          (p.fresh /\ processAudioQueueRouted(p, found, how)) =>
              /\ sinkId' = IF found.ok /\ how = "resolves" /\ Preferred(found.devices) # 0
                           THEN found.devices[Preferred(found.devices)].deviceId
                           ELSE "default"
              /\ (isSessionActiveRef /\ ~threw') =>
                    /\ Len(units') = Len(units) + 1
                    /\ units'[Len(units')].chunks = p.chunks]_vars

\* C35 witness: a Bluetooth speaker is listed before a headset, the context is
\* routed to the headset and the unit plays.
C35_Witness ==
    /\ enumerated.ok /\ Len(enumerated.devices) = 2
    /\ enumerated.devices[1].deviceId = "bt" /\ enumerated.devices[2].deviceId = "hs"
    /\ sinkId = "hs"
    /\ Len(units) = 1 /\ units[1].state = "playing"
    /\ ~threw


\* The phases in which a session is under way
ActivePhases == {"connecting", "connected", "listening", "speaking"}

\* C36: the session-active flag agrees with the phase: isSessionActiveRef is
\* true exactly when the phase is connecting, connected, listening or
\* speaking, and false in idle, ended and error.
C36_ActiveFlagAgreesWithPhase ==
    isSessionActiveRef <=> sessionStatus \in ActivePhases


\* C37: the in-flight flag is never left stuck: isPlayingAudioRef is true
\* only while a processAudioQueue call is suspended at its awaits or a
\* started source has not yet delivered its ended event, whatever the byte
\* lengths of the chunks received.
C37_InFlightFlagNeverStuck ==
    isPlayingAudioRef =>
        \/ pending # {}
        \/ \E n \in 1..Len(units) : units[n].state # "ended"


\* The chunks some playback unit was built from
Submitted == UNION {{units[n].chunks[i] : i \in 1..Len(units[n].chunks)} :
                        n \in 1..Len(units)}

\* The chunks waiting in the queue
Queued == {audioQueueRef2[i] : i \in 1..Len(audioQueueRef2)}

\* C38: when timers, continuations and ended events eventually fire, a phase
\* of speaking is eventually followed by listening, ended or error, and every
\* chunk queued while the session is active is eventually part of a playback
\* unit or the session has been cleaned up.
C38_ReplyTurnCompletes ==
    /\ (sessionStatus = "speaking") ~> (sessionStatus \in {"listening", "ended", "error"})
    /\ \A c \in 1..MaxBurst :
          (c \in Queued /\ isSessionActiveRef) ~> (c \in Submitted \/ ~isSessionActiveRef)


\* C39: whatever the peer sends, no capture context carries more than one
\* script-processor tap and no session has made more than one video timer.
C39_OneTapAndOneTimer ==
    \A s \in Sessions : taps[s] <= 1 /\ videoTimers[s] <= 1


\* C40: a lookup response sets the summary only in the ended phase its lookup
\* was made in: once Start New Session has left that phase, no response of
\* an earlier lookup sets the summary.
C40_SummaryOfOwnSession ==
    [][(received' \in Fetched /\ sessionSummary' # sessionSummary) =>
           sessionStatus = "ended"]_vars

====
